---- MODULE Spec2Model ----
(***************************************************************************)
(* replicax: the request pipeline of replicax() (route registration, body  *)
(* parsing, the global middleware chain, route lookup and the per-route    *)
(* handler chain), and lib/watch.js, the watcher that restarts the server  *)
(* when a file changes.                                                    *)
(*                                                                         *)
(* Strings are sequences of one-character strings: "/a/" is <<"/","a","/">>*)
(* A request payload is a sequence of bytes; "C3","A9" is the two-byte     *)
(* UTF-8 encoding of one character, written "e9" once decoded; "FFFD" is   *)
(* the replacement character a decoder emits for a broken sequence.        *)
(***************************************************************************)
EXTENDS Integers, Sequences, FiniteSets, TLC

\* ------------------------------------------------------------------ bounds
MaxMw == 2          \* middlewares registered with use()
MaxRoutes == 1      \* routes registered before a dispatch is explored
MaxMatchRoutes == 2 \* routes registered before a route lookup is explored
MaxHandlers == 3    \* handlers of one route
MaxOps == 4         \* calls (next, res.json, throw) user functions make per request

VARIABLES
    routes,         \* const routes = []        : <<[method, regex, handlers]>>
    middlewares,    \* const middlewares = []   : <<function>>
    listening,      \* listen() was called
    reqs,           \* the requests handleRequest was called for: id -> its closure state
    stack,          \* the JavaScript call stack of the dispatch that is running
    running,        \* the request whose dispatch is on the stack, 0 when idle
    nodeProcess,    \* lib/watch.js, let nodeProcess: the child spawned last, 0 for null
    debounceTimeout,\* lib/watch.js, let debounceTimeout: a timer id, 0 for null
    timers,         \* the timers of the watcher that are set and have not run
    procs,          \* the children the watcher spawned: "running" or "killed"
    now,            \* the watcher's clock, in ms
    wlog            \* the file changes and restarts of the watcher, in order

appVars == <<routes, middlewares, listening, reqs, stack, running>>

watchVars == <<nodeProcess, debounceTimeout, timers, procs, now, wlog>>

vars == <<appVars, watchVars>>

\* ---------------------------------------------------------------- strings
Last(s) == s[Len(s)]
Front(s) == SubSeq(s, 1, Len(s) - 1)
Drop(s, n) == SubSeq(s, n + 1, Len(s))
Take(s, n) == SubSeq(s, 1, n)

NameChars == {"a", "b", "x", "y"}      \* the model's part of [A-Za-z0-9_]

\* ------------------------------------------------- TRAILING_SLASH_REGEXP
\* s.replace(/\/+$/, ''): s without its trailing run of slashes
RECURSIVE StripTrailingSlash(_)
StripTrailingSlash(s) ==
    IF s # <<>> /\ Last(s) = "/" THEN StripTrailingSlash(Front(s)) ELSE s

\* s.replace(TRAILING_SLASH_REGEXP, '') || '/'
CleanPath(s) == IF StripTrailingSlash(s) = <<>> THEN <<"/">> ELSE StripTrailingSlash(s)

\* ------------------------------------------------------------ pathToRegex
RECURSIVE NameRun(_)
\* the length of the longest prefix of s matching [A-Za-z0-9_]*
NameRun(s) == IF s # <<>> /\ Head(s) \in NameChars THEN 1 + NameRun(Tail(s)) ELSE 0

RECURSIVE RegexOf(_)
\* .replace(/\//g, '\\/').replace(/:([A-Za-z0-9_]+)/g, ...): the regex as a
\* sequence of items, a literal character, a named group (?<v>[^\/]+) or,
\* for a dot of the path (only the slashes are escaped), any character
RegexOf(s) ==
    IF s = <<>> THEN <<>>
    ELSE IF Head(s) = ":" /\ NameRun(Tail(s)) > 0
         THEN <<[t |-> "grp", v |-> SubSeq(s, 2, NameRun(Tail(s)) + 1)]>>
              \o RegexOf(Drop(s, NameRun(Tail(s)) + 1))
         ELSE IF Head(s) = "."
              THEN <<[t |-> "any", v |-> <<".">>]>> \o RegexOf(Tail(s))
              ELSE <<[t |-> "lit", v |-> <<Head(s)>>]>> \o RegexOf(Tail(s))

KeysOf(regex) ==
    LET G == SelectSeq(regex, LAMBDA it : it.t = "grp")
    IN  [k \in 1..Len(G) |-> G[k].v]

pathToRegex(path) ==
    [regex |-> RegexOf(CleanPath(path)), keys |-> KeysOf(RegexOf(CleanPath(path)))]

\* new RegExp(...) throws a SyntaxError when two groups have the same name
RegExpThrows(path) ==
    LET keys == pathToRegex(path).keys
    IN  \E a, b \in 1..Len(keys) : a # b /\ keys[a] = keys[b]

\* ----------------------------------------------------- String.match(regex)
RECURSIVE SegRun(_)
\* the length of the longest prefix of s matching [^\/]*
SegRun(s) == IF s # <<>> /\ Head(s) # "/" THEN 1 + SegRun(Tail(s)) ELSE 0

NoMatch == [ok |-> FALSE, groups |-> {}]

RECURSIVE Exec(_, _)
\* ^regex$ against s: a group is greedy and gives back one character at a time
Exec(regex, s) ==
    IF regex = <<>> THEN [ok |-> s = <<>>, groups |-> {}]
    ELSE IF Head(regex).t = "lit"
         THEN IF s # <<>> /\ <<Head(s)>> = Head(regex).v
              THEN Exec(Tail(regex), Tail(s))
              ELSE NoMatch
    ELSE IF Head(regex).t = "any"
         THEN IF s # <<>> THEN Exec(Tail(regex), Tail(s)) ELSE NoMatch
         ELSE LET good == {n \in 1..SegRun(s) : Exec(Tail(regex), Drop(s, n)).ok}
              IN  IF good = {} THEN NoMatch
                  ELSE LET n == CHOOSE m \in good : \A o \in good : o <= m
                       IN  [ok |-> TRUE,
                            groups |-> {<<Head(regex).v, Take(s, n)>>}
                                       \cup Exec(Tail(regex), Drop(s, n)).groups]

\* --------------------------------------- new URL(req.url, 'http://host')
RECURSIVE SkipSlashes(_)
SkipSlashes(s) == IF s # <<>> /\ Head(s) = "/" THEN SkipSlashes(Tail(s)) ELSE s

\* the pathname of req.url resolved against the base, or a thrown TypeError:
\* a url that starts with two slashes is scheme-relative (its first segment
\* is the host, which may not be empty), any other is a path
ParseUrl(url) ==
    IF Len(url) >= 2 /\ url[1] = "/" /\ url[2] = "/"
    THEN LET rest == SkipSlashes(url)
         IN  IF rest = <<>> THEN [ok |-> FALSE, pathname |-> <<>>]
             ELSE IF Drop(rest, SegRun(rest)) = <<>>
                  THEN [ok |-> TRUE, pathname |-> <<"/">>]
                  ELSE [ok |-> TRUE, pathname |-> Drop(rest, SegRun(rest))]
    ELSE IF url # <<>> /\ url[1] = "/" THEN [ok |-> TRUE, pathname |-> url]
    ELSE [ok |-> TRUE, pathname |-> <<"/">> \o url]

\* ------------------------------------------------------- body += chunk
RECURSIVE ChunkToString(_)
\* a Buffer chunk converted to a string: UTF-8 decoded on its own
ChunkToString(b) ==
    IF b = <<>> THEN <<>>
    ELSE IF Head(b) = "C3"
         THEN IF Len(b) >= 2 /\ b[2] = "A9"
              THEN <<"e9">> \o ChunkToString(Drop(b, 2))
              ELSE <<"FFFD">> \o ChunkToString(Tail(b))
    ELSE IF Head(b) = "A9" THEN <<"FFFD">> \o ChunkToString(Tail(b))
    ELSE <<Head(b)>> \o ChunkToString(Tail(b))

\* ------------------------------------------------------------ JSON.parse
\* the model's JSON: a number 1+, a string "...", {} and {"key":scalar}
EmptyObject == <<"obj", <<>>>>

IsNumber(s) == s # <<>> /\ \A k \in 1..Len(s) : s[k] = "1"

IsString(s) ==
    /\ Len(s) >= 2 /\ s[1] = "\"" /\ Last(s) = "\""
    /\ \A k \in 2..(Len(s) - 1) : s[k] # "\""

IsScalar(s) == IsNumber(s) \/ IsString(s) \/ s = <<"{", "}">>

ScalarValue(s) ==
    IF IsNumber(s) THEN <<"num", s>>
    ELSE IF IsString(s) THEN <<"str", SubSeq(s, 2, Len(s) - 1)>>
    ELSE EmptyObject

\* where the key of {"key":scalar} ends, 0 when s is no such object
MemberSplit(s) ==
    IF Len(s) >= 2 /\ s[1] = "{" /\ Last(s) = "}"
       /\ \E k \in 3..(Len(s) - 2) :
             /\ IsString(SubSeq(s, 2, k)) /\ s[k + 1] = ":"
             /\ IsScalar(SubSeq(s, k + 2, Len(s) - 1))
    THEN CHOOSE k \in 3..(Len(s) - 2) :
             /\ IsString(SubSeq(s, 2, k)) /\ s[k + 1] = ":"
             /\ IsScalar(SubSeq(s, k + 2, Len(s) - 1))
    ELSE 0

JsonThrows(s) == ~IsScalar(s) /\ MemberSplit(s) = 0

JsonParse(s) ==
    IF IsScalar(s) THEN ScalarValue(s)
    ELSE <<"obj", <<SubSeq(s, 3, MemberSplit(s) - 1),
                    ScalarValue(SubSeq(s, MemberSplit(s) + 2, Len(s) - 1))>>>>

\* if (['POST', 'PUT', 'PATCH'].includes(req.method)), line 87
BodyMethods == {"POST", "PUT", "PATCH"}

\* a variant: no method is taken to carry a body
HasBodyNever(method) == FALSE

HasBody(method) == method \in BodyMethods

\* ------------------------------------------------------ the request state
Ev(e, k, c) == [ev |-> e, idx |-> k, ch |-> c]

NewRequest(method, url, payload) ==
    [ method   |-> method,          \* req.method
      url      |-> url,             \* req.url
      payload  |-> payload,         \* the bytes the client sends
      pending  |-> payload,         \* the bytes not yet delivered as 'data'
      body     |-> <<>>,            \* let body = ''
      reqBody  |-> <<"unset">>,     \* req.body
      params   |-> {},              \* req.params
      pathname |-> <<>>,            \* const pathname
      i        |-> 0,               \* let i = 0
      chains   |-> <<>>,            \* one [route, j] per call of routeHandler that matched
      res      |-> [sent |-> FALSE, status |-> 200, body |-> "none"],
      escaped  |-> FALSE,           \* handleRequest's promise was rejected
      log      |-> <<>>,            \* what happened, in order
      ops      |-> 0,               \* calls made by user functions
      pc       |-> "new" ]

Log(m, e) == [m EXCEPT !.rq.log = Append(@, e)]

\* res.status(code).json(data) / res.writeHead, res.end on a response whose
\* headers were not sent yet
Send(m, code, data) ==
    [m EXCEPT !.rq.res = [sent |-> TRUE, status |-> code, body |-> data],
              !.rq.log = Append(@, Ev("send", code, 0))]

\* a variant: next() without its try/catch around the handler
RECURSIVE RaiseUncaught(_)
RaiseUncaught(m) ==
    IF m.stack = <<>>
    THEN IF m.rq.res.sent
         THEN [m EXCEPT !.rq.escaped = TRUE,
                        !.rq.log = Append(@, Ev("late", 500, 0))]
         ELSE Send(Log(m, Ev("topcatch", 0, 0)), 500, "Server error")
    ELSE RaiseUncaught([m EXCEPT !.stack = Front(@)])

\* a variant: the call of a middleware has the try/catch of next() as well
RECURSIVE RaiseHandlerFormat(_)
RaiseHandlerFormat(m) ==
    IF m.stack = <<>>
    THEN IF m.rq.res.sent
         THEN [m EXCEPT !.rq.escaped = TRUE,
                        !.rq.log = Append(@, Ev("late", 500, 0))]
         ELSE Send(Log(m, Ev("topcatch", 0, 0)), 500, "Server error")
    ELSE IF m.rq.res.sent
         THEN RaiseHandlerFormat(Log([m EXCEPT !.stack = Front(@)],
                                     Ev("late", 500, Last(m.stack).ch)))
         ELSE Send(Log([m EXCEPT !.stack = Front(@)],
                       Ev("catch", Last(m.stack).idx, Last(m.stack).ch)),
                   500, "Internal Server Error")

RECURSIVE Raise(_)
\* an exception thrown in the function on top of the stack: it unwinds to
\* the catch of next() around a handler (lines 141-143) or to the catch of
\* handleRequest (lines 154-157); setHeader and writeHead throw
\* ERR_HTTP_HEADERS_SENT on a response that was sent
Raise(m) ==
    IF m.stack = <<>>
    THEN IF m.rq.res.sent
         THEN [m EXCEPT !.rq.escaped = TRUE,
                        !.rq.log = Append(@, Ev("late", 500, 0))]
         ELSE Send(Log(m, Ev("topcatch", 0, 0)), 500, "Server error")
    ELSE LET f == Last(m.stack)
             below == [m EXCEPT !.stack = Front(@)]
         IN  IF f.kind = "h"
             THEN IF m.rq.res.sent
                  THEN Raise(Log(below, Ev("late", 500, f.ch)))
                  ELSE Send(Log(below, Ev("catch", f.idx, f.ch)),
                            500, "Internal Server Error")
             ELSE Raise(below)

\* function next() of routeHandler, lines 136-145, for the chain c
HandlerNext(m, c) ==
    LET k == m.rq.chains[c].j + 1
        m1 == [m EXCEPT !.rq.chains[c].j = k]
    IN  IF k <= Len(routes[m.rq.chains[c].route].handlers)
        THEN [m1 EXCEPT !.stack = Append(@, [kind |-> "h", idx |-> k, ch |-> c]),
                        !.rq.log = Append(@, Ev("h", k, c))]
        ELSE m1

\* a variant: the loop without the test of the method
RECURSIVE ScanRoutesAnyMethod(_, _, _)
ScanRoutesAnyMethod(k, pathname, method) ==
    IF k > Len(routes) THEN 0
    ELSE IF Exec(routes[k].regex, pathname).ok THEN k
    ELSE ScanRoutesAnyMethod(k + 1, pathname, method)

RECURSIVE ScanRoutes(_, _, _)
\* for (const route of routes), lines 129-131: the first route from k on
\* that matches, 0 when none does
ScanRoutes(k, pathname, method) ==
    IF k > Len(routes) THEN 0
    ELSE IF Exec(routes[k].regex, pathname).ok /\ method = routes[k].method THEN k
    ELSE ScanRoutes(k + 1, pathname, method)

\* a variant: routeHandler without its 404 after the loop
RouteHandlerSilent(m) ==
    LET ri == ScanRoutes(1, m.rq.pathname, m.rq.method)
        m0 == Log(m, Ev("lookup", ri, 0))
    IN  IF ri = 0 THEN m0
        ELSE HandlerNext(
                 [m0 EXCEPT !.rq.params = Exec(routes[ri].regex, m.rq.pathname).groups,
                            !.rq.chains = Append(@, [route |-> ri, j |-> 0])],
                 Len(m0.rq.chains) + 1)

\* function routeHandler(), lines 128-151
RouteHandler(m) ==
    LET ri == ScanRoutes(1, m.rq.pathname, m.rq.method)
        m0 == Log(m, Ev("lookup", ri, 0))
    IN  IF ri = 0
        THEN IF m0.rq.res.sent
             THEN Raise(Log(m0, Ev("late", 404, 0)))
             ELSE Send(m0, 404, "Route not found")
        ELSE HandlerNext(
                 [m0 EXCEPT !.rq.params = Exec(routes[ri].regex, m.rq.pathname).groups,
                            !.rq.chains = Append(@, [route |-> ri, j |-> 0])],
                 Len(m0.rq.chains) + 1)

\* a variant: the next of a middleware invokes the middleware after it,
\* whatever was invoked before (no cursor shared by the calls)
RunMiddlewaresFromCaller(m) ==
    LET k == IF m.stack = <<>> THEN 1 ELSE Last(m.stack).idx + 1
        m1 == [m EXCEPT !.rq.i = k]
    IN  IF k > Len(middlewares) THEN RouteHandler(m1)
        ELSE IF middlewares[k] = "fn"
             THEN [m1 EXCEPT !.stack = Append(@, [kind |-> "mw", idx |-> k, ch |-> 0]),
                             !.rq.log = Append(@, Ev("mw", k, 0))]
             ELSE Raise(m1)

\* function runMiddlewares(), lines 122-126
RunMiddlewares(m) ==
    LET k == m.rq.i + 1
        m1 == [m EXCEPT !.rq.i = k]
    IN  IF k > Len(middlewares) THEN RouteHandler(m1)
        ELSE IF middlewares[k] = "fn"
             THEN [m1 EXCEPT !.stack = Append(@, [kind |-> "mw", idx |-> k, ch |-> 0]),
                             !.rq.log = Append(@, Ev("mw", k, 0))]
             ELSE Raise(m1)      \* TypeError: middleware is not a function

\* handleRequest after await parseBody(req), lines 120-153
AfterAwait(m) == RunMiddlewares([m EXCEPT !.rq.i = 0, !.rq.pc = "running"])

\* the request state once the running dispatch has taken a step
Settle(m) ==
    IF m.stack = <<>> /\ m.rq.pc # "reading" THEN [m.rq EXCEPT !.pc = "done"] ELSE m.rq

\* req.on('end', ...), lines 90-96: req.body once the payload has ended
BodyAtEnd(body) == IF JsonThrows(body) THEN EmptyObject ELSE JsonParse(body)

\* ------------------------------------------------------------------ state
Init ==
    /\ routes = <<>>
    /\ middlewares = <<>>
    /\ listening = FALSE
    /\ reqs = <<>>
    /\ stack = <<>>
    /\ running = 0
    /\ nodeProcess = 1             \* startServer() of line 49 has run
    /\ debounceTimeout = 0
    /\ timers = {}
    /\ procs = <<"running">>
    /\ now = 0
    /\ wlog = <<>>

\* what a step of the dispatch of request r leaves behind
Commit(r, m) ==
    /\ reqs' = [reqs EXCEPT ![r] = Settle(m)]
    /\ stack' = m.stack
    /\ running' = IF m.stack = <<>> THEN 0 ELSE r
    /\ UNCHANGED <<routes, middlewares, listening, watchVars>>

\* ------------------------------------------------------------------ setup
\* use(middleware), line 165
Use ==
    /\ ~listening
    /\ Len(middlewares) < MaxMw
    /\ middlewares' = Append(middlewares, "fn")
    /\ UNCHANGED <<routes, listening, reqs, stack, running, watchVars>>

\* use(path, fn) as the README writes it: line 165 pushes its first argument
UsePath ==
    /\ ~listening
    /\ Len(middlewares) < MaxMw
    /\ middlewares' = Append(middlewares, "str")
    /\ UNCHANGED <<routes, listening, reqs, stack, running, watchVars>>

\* register(method, path, ...handler), lines 58-61, with n handlers
Register(method, path, n) ==
    /\ ~listening
    /\ ~RegExpThrows(path)
    /\ routes' = Append(routes, [method |-> method,
                                 regex |-> pathToRegex(path).regex,
                                 pattern |-> path,
                                 handlers |-> [k \in 1..n |-> "fn"]])
    /\ UNCHANGED <<middlewares, listening, reqs, stack, running, watchVars>>

\* listen(port, cb, options), lines 208-214
Listen ==
    /\ ~listening
    /\ listening' = TRUE
    /\ UNCHANGED <<routes, middlewares, reqs, stack, running, watchVars>>

\* --------------------------------------------------------------- requests
\* handleRequest(req, res) up to await parseBody(req), lines 110-118, and,
\* for a method without a body, the rest of it up to the first user function
Arrive(method, url, payload) ==
    LET rq0 == NewRequest(method, url, payload)
        u == ParseUrl(url)
        rq1 == [rq0 EXCEPT !.pathname = CleanPath(u.pathname)]
    IN  IF ~u.ok THEN Raise([rq |-> rq0, stack |-> <<>>])
        ELSE IF HasBody(method)
             THEN [rq |-> [rq1 EXCEPT !.pc = "reading"], stack |-> <<>>]
             ELSE AfterAwait([rq |-> [rq1 EXCEPT !.reqBody = EmptyObject],
                              stack |-> <<>>])

\* the server calls handleRequest for a request that arrived
HandleRequest(method, url, payload) ==
    /\ listening
    /\ running = 0
    /\ LET m == Arrive(method, url, payload)
       IN  /\ reqs' = Append(reqs, Settle(m))
           /\ stack' = m.stack
           /\ running' = IF m.stack = <<>> THEN 0 ELSE Len(reqs) + 1
    /\ UNCHANGED <<routes, middlewares, listening, watchVars>>

\* req.on('data', chunk => (body += chunk)), line 89: the next n bytes arrive
OnData(rq, n) ==
    [rq EXCEPT !.body = @ \o ChunkToString(Take(rq.pending, n)),
               !.pending = Drop(@, n),
               !.log = Append(@, Ev("data", n, 0))]

\* a 'data' event of request r
Data(r, n) ==
    /\ running = 0
    /\ reqs[r].pc = "reading"
    /\ n <= Len(reqs[r].pending)
    /\ reqs' = [reqs EXCEPT ![r] = OnData(reqs[r], n)]
    /\ UNCHANGED <<routes, middlewares, listening, stack, running, watchVars>>

\* req.on('end', ...), lines 90-97, and handleRequest resumed after the await
OnEnd(rq) ==
    AfterAwait([rq |-> [rq EXCEPT !.reqBody = BodyAtEnd(rq.body),
                                  !.log = Append(@, Ev("end", 0, 0))],
                stack |-> <<>>])

\* the 'end' event of request r
End(r) ==
    /\ running = 0
    /\ reqs[r].pc = "reading"
    /\ reqs[r].pending = <<>>
    /\ Commit(r, OnEnd(reqs[r]))

\* ------------------------------------------------------ the user functions
\* the middleware or handler that is running (lines 125 and 140 call it)
\* does one thing more: it calls its next, calls res.json, throws or returns
\* a variant: one cursor i for all requests, left where the request that
\* arrived last has it
SpendSharedCursor(r) ==
    [rq |-> [reqs[r] EXCEPT !.ops = @ + 1, !.i = reqs[Len(reqs)].i], stack |-> stack]

\* the closure of request r, with one call more made by its user functions
Spend(r) == [rq |-> [reqs[r] EXCEPT !.ops = @ + 1], stack |-> stack]

\* what the running function does, on the dispatch m
DoNext(m) ==
    LET top == Last(m.stack)
    IN  IF top.kind = "mw"
        THEN RunMiddlewares(Log(m, Ev("mwnext", top.idx, 0)))
        ELSE HandlerNext(Log(m, Ev("hnext", top.idx, top.ch)), top.ch)

DoJson(m) ==
    LET top == Last(m.stack)
    IN  IF m.rq.res.sent
        THEN Raise(Log(Log(m, Ev("json", top.idx, top.ch)), Ev("late", 200, top.ch)))
        ELSE Send(Log(m, Ev("json", top.idx, top.ch)), 200, "user")

DoThrow(m) ==
    LET top == Last(m.stack)
    IN  Raise(Log(m, Ev(IF top.kind = "mw" THEN "mwthrow" ELSE "hthrow", top.idx, top.ch)))

DoReturn(m) ==
    [Log(m, Ev("ret", Last(m.stack).idx, Last(m.stack).ch)) EXCEPT !.stack = Front(@)]

CallNext(r, limit) ==
    /\ running = r
    /\ reqs[r].ops < limit
    /\ Commit(r, DoNext(Spend(r)))

CallJson(r, limit) ==
    /\ running = r
    /\ reqs[r].ops < limit
    /\ Commit(r, DoJson(Spend(r)))

Throw(r, limit) ==
    /\ running = r
    /\ reqs[r].ops < limit
    /\ Commit(r, DoThrow(Spend(r)))

Return(r) ==
    /\ running = r
    /\ Commit(r, DoReturn([rq |-> reqs[r], stack |-> stack]))

InFlight == DOMAIN reqs

\* ------------------------------------------------- the dispatch of a request
\* one route pattern, every shape of the two chains, every user behaviour
Next ==
    \/ Use
    \/ UsePath
    \/ \E method \in {"GET", "POST"}, n \in 0..MaxHandlers :
          Len(routes) < MaxRoutes /\ Register(method, <<"/", "a">>, n)
    \/ Listen
    \/ \E method \in {"GET", "POST"},
          url \in {<<"/", "a">>, <<"/", "b">>, <<"/", "/">>},
          payload \in {<<"{", "}">>} :
          reqs = <<>> /\ HandleRequest(method, url, payload)
    \/ \E r \in InFlight : \E n \in 1..Len(reqs[r].pending) : Data(r, n)
    \/ \E r \in InFlight : End(r)
    \/ \E r \in InFlight : CallNext(r, MaxOps)
    \/ \E r \in InFlight : CallJson(r, MaxOps)
    \/ \E r \in InFlight : Throw(r, MaxOps)
    \/ \E r \in InFlight : Return(r)

Spec == Init /\ [][Next]_vars

\* ----------------------------------------------------------- route lookup
\* every table of routes over these patterns, every url; the handlers make
\* one call at most
MatchPatterns ==
    { <<"/">>, <<"/", "/">>, <<"/", "a">>, <<"/", "a", "/">>, <<"/", ":", "x">>,
      <<"/", ":", "x", "/", "/">>, <<"/", "a", "/", ":", "y">> }

MatchUrls ==
    { <<>>, <<"/">>, <<"/", "/">>, <<"/", "a">>, <<"/", "a", "/">>,
      <<"/", "a", "/", "/">>, <<"/", "b", "/">>, <<"/", "a", "/", "b">>,
      <<"/", "a", "/", "b", "/">>, <<"/", "/", "a", "/">> }

NextMatch ==
    \/ \E method \in {"GET", "POST"}, path \in MatchPatterns :
          Len(routes) < MaxMatchRoutes /\ Register(method, path, 1)
    \/ Listen
    \/ \E method \in {"GET", "POST"}, url \in MatchUrls, payload \in {<<"1">>} :
          reqs = <<>> /\ HandleRequest(method, url, payload)
    \/ \E r \in InFlight : \E n \in 1..Len(reqs[r].pending) : Data(r, n)
    \/ \E r \in InFlight : End(r)
    \/ \E r \in InFlight : CallNext(r, 1)
    \/ \E r \in InFlight : CallJson(r, 1)
    \/ \E r \in InFlight : Throw(r, 1)
    \/ \E r \in InFlight : Return(r)

SpecMatch == Init /\ [][NextMatch]_vars

\* ------------------------------------------------------ requests in flight
MaxReqs == 2        \* requests that are in flight together

\* one middleware, one route, and requests that arrive while the bodies of
\* others are being read
NextTwo ==
    \/ middlewares = <<>> /\ Use
    \/ routes = <<>> /\ Register("POST", <<"/", ":", "x">>, 1)
    \/ Listen
    \/ \E method \in {"GET", "POST"}, url \in {<<"/", "a">>, <<"/", "b">>},
          payload \in {<<"{", "}">>} :
          Len(reqs) < MaxReqs /\ HandleRequest(method, url, payload)
    \/ \E r \in InFlight : \E n \in 1..Len(reqs[r].pending) : Data(r, n)
    \/ \E r \in InFlight : End(r)
    \/ \E r \in InFlight : CallNext(r, 1)
    \/ \E r \in InFlight : CallJson(r, 1)
    \/ \E r \in InFlight : Throw(r, 1)
    \/ \E r \in InFlight : Return(r)

SpecTwo == Init /\ [][NextTwo]_vars

\* ------------------------------------------------------------ lib/watch.js
\* const DEBOUNCE_DELAY, in ms
DEBOUNCE_DELAY == 300

\* fs.watchFile(filePath, { interval: 100 }, ...): the period, in ms, at which
\* a change of a file is looked for
PollInterval == 100

MaxTicks == 9       \* the poll periods the watcher is followed for
MaxChanges == 3     \* the file changes the watcher is told of

WEv(e) == [ev |-> e, t |-> now]

Changes == {p \in DOMAIN wlog : wlog[p].ev = "change"}

Restarts == {p \in DOMAIN wlog : wlog[p].ev = "restart"}

\* a variant: the timer that is pending is left alone
ClearTimeoutNone(ts, id) == ts

\* clearTimeout(id): the timer id is not pending any more; nothing happens
\* for null or for a timer that has run
ClearTimeout(ts, id) == {t \in ts : t.id # id}

\* time passes; a timer runs when it is due or later
Tick ==
    /\ now < MaxTicks * PollInterval
    /\ now' = now + PollInterval
    /\ UNCHANGED <<appVars, nodeProcess, debounceTimeout, timers, procs, wlog>>

\* the listener of fs.watchFile, lines 38-44: a file was seen changed
Change ==
    /\ Cardinality(Changes) < MaxChanges
    /\ now + DEBOUNCE_DELAY <= MaxTicks * PollInterval
    /\ LET id == Cardinality(Changes) + 1
       IN  /\ timers' = ClearTimeout(timers, debounceTimeout)
                            \cup {[id |-> id, due |-> now + DEBOUNCE_DELAY]}
           /\ debounceTimeout' = id
    /\ wlog' = Append(wlog, WEv("change"))
    /\ UNCHANGED <<appVars, nodeProcess, procs, now>>

\* the callback of setTimeout, lines 40-43, with startServer(), lines 14-21
Fire(t) ==
    /\ t \in timers
    /\ now >= t.due
    /\ timers' = timers \ {t}
    /\ procs' = Append(IF nodeProcess # 0 THEN [procs EXCEPT ![nodeProcess] = "killed"]
                                          ELSE procs,
                       "running")
    /\ nodeProcess' = Len(procs) + 1
    /\ wlog' = Append(wlog, WEv("restart"))
    /\ UNCHANGED <<appVars, debounceTimeout, now>>

NextWatch ==
    \/ Tick
    \/ Change
    \/ \E t \in timers : Fire(t)

\* time passes and a timer that is due runs in the end
SpecWatch ==
    Init /\ [][NextWatch]_vars /\ WF_vars(Tick) /\ WF_vars(\E t \in timers : Fire(t))

\* ---------------------------------------------------- parameter extraction
\* one route over these patterns with parameters, every url
ParamPatterns ==
    { <<"/", ":", "x">>, <<"/", "a", "/", ":", "y">>, <<"/", ":", "x", "/", ":", "y">>,
      <<"/", ":", "x", "/", "a", ".", "b">> }

ParamUrls ==
    { <<"/">>, <<"/", "a">>, <<"/", "a", "b">>, <<"/", "a", "/", "b">>,
      <<"/", "b", "/", "a">>, <<"/", "a", "/", "/", "b">>, <<"/", "a", "/", "b", "/", "a">>,
      <<"/", "b", "/", "a", ".", "b">>, <<"/", "b", "/", "a", "x", "b">> }

NextParams ==
    \/ \E method \in {"GET", "POST"}, path \in ParamPatterns :
          routes = <<>> /\ Register(method, path, 1)
    \/ Listen
    \/ \E method \in {"GET", "POST"}, url \in ParamUrls, payload \in {<<"1">>} :
          reqs = <<>> /\ HandleRequest(method, url, payload)
    \/ \E r \in InFlight : \E n \in 1..Len(reqs[r].pending) : Data(r, n)
    \/ \E r \in InFlight : End(r)
    \/ \E r \in InFlight : CallNext(r, 1)
    \/ \E r \in InFlight : CallJson(r, 1)
    \/ \E r \in InFlight : Throw(r, 1)
    \/ \E r \in InFlight : Return(r)

SpecParams == Init /\ [][NextParams]_vars

\* ------------------------------------------------------------ body parsing
\* every payload below in every split into chunks, one route
BodyPayloads ==
    { <<>>, <<"1">>, <<"{">>, <<"{", "}">>, <<"\"", "C3", "A9", "\"">>,
      <<"{", "\"", "a", "\"", ":", "1", "}">>, <<"C3", "A9">> }

NextBody ==
    \/ routes = <<>> /\ Register("POST", <<"/", "a">>, 1)
    \/ Listen
    \/ \E method \in {"GET", "POST", "PUT", "DELETE"}, payload \in BodyPayloads :
          reqs = <<>> /\ HandleRequest(method, <<"/", "a">>, payload)
    \/ \E r \in InFlight : \E n \in 1..Len(reqs[r].pending) : Data(r, n)
    \/ \E r \in InFlight : End(r)
    \/ \E r \in InFlight : CallNext(r, 1)
    \/ \E r \in InFlight : CallJson(r, 1)
    \/ \E r \in InFlight : Throw(r, 1)
    \/ \E r \in InFlight : Return(r)

SpecBody == Init /\ [][NextBody]_vars

\* ------------------------------------------------------------- the claims
\* event e of index k and chain c is in the log L before position p
Earlier(L, p, e, k, c) == \E q \in 1..(p - 1) : L[q] = Ev(e, k, c)

Logged(L, e) == \E p \in DOMAIN L : L[p].ev = e

\* C1: the middlewares are invoked in registration order: middleware k+1 is
\* invoked only after middleware k was invoked and called next, and route
\* lookup starts only after the last middleware called next
C1_MiddlewareOrder ==
    \A r \in InFlight :
       LET L == reqs[r].log
       IN  \A p \in DOMAIN L :
              /\ (L[p].ev = "mw" /\ L[p].idx > 1) =>
                     /\ Earlier(L, p, "mw", L[p].idx - 1, 0)
                     /\ Earlier(L, p, "mwnext", L[p].idx - 1, 0)
              /\ (L[p].ev = "lookup" /\ middlewares # <<>>) =>
                     Earlier(L, p, "mwnext", Len(middlewares), 0)

\* C2: a middleware that was invoked and never called next: no later
\* middleware, no route lookup, no handler and no framework 404
C2_MiddlewareVeto ==
    \A r \in InFlight :
       LET L == reqs[r].log
       IN  \A p \in DOMAIN L :
              (/\ reqs[r].pc = "done"
               /\ L[p].ev = "mw"
               /\ ~\E q \in DOMAIN L : L[q] = Ev("mwnext", L[p].idx, 0)) =>
                  \A q \in DOMAIN L :
                     /\ ~(L[q].ev = "mw" /\ L[q].idx > L[p].idx)
                     /\ L[q].ev \notin {"lookup", "h"}
                     /\ L[q] # Ev("send", 404, 0)

\* C4: in a chain handler k+1 is invoked only after handler k was invoked
\* and called next
C4_HandlerOrder ==
    \A r \in InFlight :
       LET L == reqs[r].log
       IN  \A p \in DOMAIN L :
              (L[p].ev = "h" /\ L[p].idx > 1) =>
                  /\ Earlier(L, p, "h", L[p].idx - 1, L[p].ch)
                  /\ Earlier(L, p, "hnext", L[p].idx - 1, L[p].ch)

\* C6: once a handler of a chain has thrown, no handler of that chain is
\* invoked
C6_NoHandlerAfterThrow ==
    \A r \in InFlight :
       LET L == reqs[r].log
       IN  \A p, q \in DOMAIN L :
              (p < q /\ L[p].ev = "hthrow" /\ L[q].ev = "h") => L[q].ch # L[p].ch

\* ---- C3
\* the entries a request for (method, pathname) matches, stated on the table
MatchingEntries(method, pathname) ==
    {k \in DOMAIN routes : routes[k].method = method /\ Exec(routes[k].regex, pathname).ok}

EarliestEntry(method, pathname) ==
    IF MatchingEntries(method, pathname) = {} THEN 0
    ELSE CHOOSE k \in MatchingEntries(method, pathname) :
             \A o \in MatchingEntries(method, pathname) : k <= o

\* C3: every route lookup selects, and every handler that is invoked belongs
\* to, the earliest registered entry whose method is the request's and whose
\* pattern matches the normalized path
C3_FirstMatchWins ==
    \A r \in InFlight :
       LET L == reqs[r].log
           first == EarliestEntry(reqs[r].method, reqs[r].pathname)
       IN  \A p \in DOMAIN L :
              /\ L[p].ev = "lookup" => L[p].idx = first
              /\ L[p].ev = "h" => reqs[r].chains[L[p].ch].route = first

\* a handler of entry 1 ran although entry 2 matches the request as well
C3_Witness ==
    \E r \in InFlight :
       /\ Cardinality(MatchingEntries(reqs[r].method, reqs[r].pathname)) = 2
       /\ \E p \in DOMAIN reqs[r].log :
             /\ reqs[r].log[p].ev = "h"
             /\ reqs[r].chains[reqs[r].log[p].ch].route = 1

\* ---- C5
InternalServerError == [sent |-> TRUE, status |-> 500, body |-> "Internal Server Error"]

\* C5 as stated: once a handler has thrown the response is the 500
\* Internal Server Error
C5_ThrowGives500 ==
    \A r \in InFlight :
       Logged(reqs[r].log, "hthrow") => reqs[r].res = InternalServerError

NoSendBefore(L, p) == \A q \in 1..(p - 1) : L[q].ev # "send"

\* C5 amended: once a handler has thrown while no response was finalized
\* yet, the response is the 500 Internal Server Error
C5_ThrowGives500Unsent ==
    \A r \in InFlight :
       LET L == reqs[r].log
       IN  \A p \in DOMAIN L :
              (L[p].ev = "hthrow" /\ NoSendBefore(L, p)) =>
                  reqs[r].res = InternalServerError

\* the second handler of a chain threw before any response and the request
\* ended with the 500
C5_Witness ==
    \E r \in InFlight :
       LET L == reqs[r].log
       IN  /\ reqs[r].pc = "done"
           /\ reqs[r].res = InternalServerError
           /\ \E p \in DOMAIN L :
                 L[p].ev = "hthrow" /\ L[p].idx = 2 /\ NoSendBefore(L, p)

\* ---- C7
RouteNotFound == [sent |-> TRUE, status |-> 404, body |-> "Route not found"]

\* the request was dispatched, every middleware was invoked and called next,
\* and no entry matches both its method and its normalized path
UnmatchedAfterChain(r) ==
    /\ reqs[r].pc \in {"running", "done"}
    /\ ParseUrl(reqs[r].url).ok
    /\ \A k \in DOMAIN middlewares :
          /\ \E p \in DOMAIN reqs[r].log : reqs[r].log[p] = Ev("mw", k, 0)
          /\ \E p \in DOMAIN reqs[r].log : reqs[r].log[p] = Ev("mwnext", k, 0)
    /\ MatchingEntries(reqs[r].method, reqs[r].pathname) = {}

\* C7 as stated: such a request gets the 404 and no handler is invoked
C7_NotFound ==
    \A r \in InFlight :
       UnmatchedAfterChain(r) =>
           reqs[r].res = RouteNotFound /\ ~Logged(reqs[r].log, "h")

\* C7 amended: such a request, when no response was finalized before route
\* lookup started, gets the 404 and no handler is invoked
C7_NotFoundUnsent ==
    \A r \in InFlight :
       LET L == reqs[r].log
       IN  (/\ UnmatchedAfterChain(r)
            /\ \E p \in DOMAIN L : L[p].ev = "lookup" /\ NoSendBefore(L, p)) =>
               reqs[r].res = RouteNotFound /\ ~Logged(L, "h")

\* a POST, let through by a middleware, whose path matches a GET entry only
C7_Witness ==
    \E r \in InFlight :
       /\ UnmatchedAfterChain(r)
       /\ middlewares # <<>>
       /\ \E k \in DOMAIN routes : Exec(routes[k].regex, reqs[r].pathname).ok
       /\ reqs[r].res = RouteNotFound
       /\ reqs[r].pc = "done"

\* ---- C8
\* C8: when a middleware or a handler is invoked, or route lookup starts,
\* req.body is assigned and, for POST/PUT/PATCH, the payload has ended with
\* all of it delivered
C8_BodyBeforeDispatch ==
    \A r \in InFlight :
       LET L == reqs[r].log
       IN  \A p \in DOMAIN L :
              L[p].ev \in {"mw", "lookup", "h"} =>
                  /\ reqs[r].reqBody # <<"unset">>
                  /\ reqs[r].method \in BodyMethods =>
                        /\ Earlier(L, p, "end", 0, 0)
                        /\ reqs[r].pending = <<>>
                        /\ \A q \in DOMAIN L : L[q].ev = "data" => q < p

\* a POST whose payload came in two chunks reached a middleware and a handler
C8_Witness ==
    \E r \in InFlight :
       LET L == reqs[r].log
       IN  /\ reqs[r].method = "POST"
           /\ Cardinality({q \in DOMAIN L : L[q].ev = "data"}) = 2
           /\ Logged(L, "mw")
           /\ Logged(L, "h")

\* ---- C9
\* the JSON value of a payload, {} when it is not valid JSON
ValueOfPayload(payload) ==
    IF JsonThrows(ChunkToString(payload)) THEN EmptyObject
    ELSE JsonParse(ChunkToString(payload))

\* C9: req.body, once assigned, is the JSON value of the whole payload ({}
\* when that is not valid JSON) for POST/PUT/PATCH, and {} with the payload
\* left unread for any other method
C9_BodyValue ==
    \A r \in InFlight :
       reqs[r].reqBody # <<"unset">> =>
          IF reqs[r].method \in BodyMethods
          THEN reqs[r].reqBody = ValueOfPayload(reqs[r].payload)
          ELSE /\ reqs[r].reqBody = EmptyObject
               /\ reqs[r].pending = reqs[r].payload
               /\ reqs[r].body = <<>>

\* ---- C10
RECURSIVE WithoutTrailingSlashes(_)
WithoutTrailingSlashes(s) ==
    IF s = <<>> \/ s[Len(s)] # "/" THEN s
    ELSE WithoutTrailingSlashes(SubSeq(s, 1, Len(s) - 1))

\* the entry and the parameters a request for url is dispatched to
Dispatched(method, url) ==
    LET path == CleanPath(ParseUrl(url).pathname)
        k == EarliestEntry(method, path)
    IN  IF ~ParseUrl(url).ok THEN <<"error">>
        ELSE IF k = 0 THEN <<"none">>
        ELSE <<"entry", k, Exec(routes[k].regex, path).groups>>

\* C10: a dispatched request went where the request for its url without the
\* trailing slashes goes (to the first lookup's entry, with its parameters),
\* and an entry's regex is that of its pattern without the trailing slashes
C10_TrailingSlash ==
    /\ \A r \in InFlight :
          reqs[r].pc \in {"running", "done"} =>
             LET L == reqs[r].log
                 want == Dispatched(reqs[r].method, WithoutTrailingSlashes(reqs[r].url))
             IN  /\ want # <<"error">>
                 /\ \E p \in DOMAIN L :
                       /\ L[p].ev = "lookup"
                       /\ want = IF L[p].idx = 0 THEN <<"none">>
                                 ELSE <<"entry", L[p].idx, reqs[r].params>>
    /\ \A k \in DOMAIN routes :
          routes[k].regex = RegexOf(IF WithoutTrailingSlashes(routes[k].pattern) = <<>>
                                    THEN <<"/">>
                                    ELSE WithoutTrailingSlashes(routes[k].pattern))

\* ---- C11
RECURSIVE Split(_)
\* the segments of s, the runs between its slashes
Split(s) ==
    IF SegRun(s) = Len(s) THEN <<s>>
    ELSE <<Take(s, SegRun(s))>> \o Split(Drop(s, SegRun(s) + 1))

IsParamSeg(seg) ==
    Len(seg) >= 2 /\ seg[1] = ":" /\ \A k \in 2..Len(seg) : seg[k] \in NameChars

HasParams(pattern) == \E k \in DOMAIN Split(pattern) : IsParamSeg(Split(pattern)[k])

\* as many segments, the literal ones equal, the parameter ones not empty
SegFits(pattern, path) ==
    /\ Len(Split(pattern)) = Len(Split(path))
    /\ \A k \in DOMAIN Split(pattern) :
          IF IsParamSeg(Split(pattern)[k]) THEN Split(path)[k] # <<>>
          ELSE Split(path)[k] = Split(pattern)[k]

ParamsOf(pattern, path) ==
    { <<Drop(Split(pattern)[k], 1), Split(path)[k]>> :
         k \in {o \in DOMAIN Split(pattern) : IsParamSeg(Split(pattern)[o])} }

\* C11: when route lookup has run for a request, an entry whose pattern has
\* parameters matches the normalized path exactly when the path has as many
\* segments, equal literal segments and non-empty parameter segments, the
\* lookup selects no entry the path does not fit, and req.params maps every
\* declared name to its segment of the path
C11_ParamExtraction ==
    \A r \in InFlight :
       LET L == reqs[r].log
       IN  \A p \in DOMAIN L :
              L[p].ev = "lookup" =>
                 /\ \A k \in DOMAIN routes :
                       HasParams(routes[k].pattern) =>
                          (Exec(routes[k].regex, reqs[r].pathname).ok
                              <=> SegFits(routes[k].pattern, reqs[r].pathname))
                 /\ (L[p].idx # 0 /\ HasParams(routes[L[p].idx].pattern)) =>
                       /\ SegFits(routes[L[p].idx].pattern, reqs[r].pathname)
                       /\ reqs[r].params =
                             ParamsOf(routes[L[p].idx].pattern, reqs[r].pathname)

\* ---- C12
\* a middleware or a handler threw, the url or the body was malformed, or
\* route lookup found no entry
Failed(r) ==
    \/ Logged(reqs[r].log, "mwthrow")
    \/ Logged(reqs[r].log, "hthrow")
    \/ ~ParseUrl(reqs[r].url).ok
    \/ (reqs[r].method \in BodyMethods /\ Logged(reqs[r].log, "end")
           /\ JsonThrows(reqs[r].body))
    \/ \E p \in DOMAIN reqs[r].log : reqs[r].log[p] = Ev("lookup", 0, 0)

\* C12: no error escapes handleRequest, and a request that failed and whose
\* dispatch is over has a finalized response
C12_FailureAnswered ==
    \A r \in InFlight :
       /\ ~reqs[r].escaped
       /\ (Failed(r) /\ reqs[r].pc = "done") => reqs[r].res.sent

\* ---- C13
\* every middleware was invoked and called next
ChainCompleted(r) ==
    \A k \in DOMAIN middlewares :
       /\ \E p \in DOMAIN reqs[r].log : reqs[r].log[p] = Ev("mw", k, 0)
       /\ \E p \in DOMAIN reqs[r].log : reqs[r].log[p] = Ev("mwnext", k, 0)

\* the dispatch is over, nothing threw, a route matched and every handler of
\* its list (there may be none) was invoked and called next
AllHandlersPassed(r) ==
    /\ reqs[r].pc = "done"
    /\ ~Logged(reqs[r].log, "mwthrow") /\ ~Logged(reqs[r].log, "hthrow")
    /\ reqs[r].chains # <<>>
    /\ \A k \in DOMAIN routes[reqs[r].chains[1].route].handlers :
          /\ \E p \in DOMAIN reqs[r].log : reqs[r].log[p] = Ev("h", k, 1)
          /\ \E p \in DOMAIN reqs[r].log : reqs[r].log[p] = Ev("hnext", k, 1)

\* C13: a request whose middleware chain completed and whose handlers all
\* passed on and returned has a finalized response
C13_DefaultResponse ==
    \A r \in InFlight :
       (ChainCompleted(r) /\ AllHandlersPassed(r)) => reqs[r].res.sent

\* ---- C14
ServerError == [sent |-> TRUE, status |-> 500, body |-> "Server error"]

\* C14: once runMiddlewares has taken the entry that use(path, fn) left in
\* the list, fn was invoked as a middleware of the request, a request it let
\* through reached route lookup, and the response is not the framework's
\* 500
C14_PathScopedUse ==
    \A r \in InFlight : \A k \in DOMAIN middlewares :
       (middlewares[k] = "str" /\ reqs[r].pc \in {"running", "done"} /\ reqs[r].i >= k) =>
          /\ \E p \in DOMAIN reqs[r].log : reqs[r].log[p] = Ev("mw", k, 0)
          /\ (\E p \in DOMAIN reqs[r].log : reqs[r].log[p] = Ev("mwnext", k, 0)) =>
                (reqs[r].i > k /\ (k = Len(middlewares) => Logged(reqs[r].log, "lookup")))
          /\ reqs[r].res # ServerError

\* ---- C15
\* no restart lies between two changes that are less than DEBOUNCE_DELAY
\* apart, and one restart at most between a change and the next one (or the
\* end of the log)
OneRestartPerBurst ==
    \A p \in Changes :
       LET later == {q \in Changes : q > p}
           nxt == IF later = {} THEN Len(wlog) + 1
                  ELSE CHOOSE q \in later : \A o \in later : q <= o
           between == {q \in Restarts : p < q /\ q < nxt}
       IN  /\ Cardinality(between) <= 1
           /\ (later # {} /\ wlog[nxt].t - wlog[p].t < DEBOUNCE_DELAY) => between = {}

\* a restart runs DEBOUNCE_DELAY or more after the change before it, and no
\* restart comes before the first change
RestartAfterBurst ==
    \A q \in Restarts :
       /\ \E p \in Changes : p < q
       /\ \A p \in Changes : p < q => wlog[q].t >= wlog[p].t + DEBOUNCE_DELAY

\* every child but the one spawned last was killed
KilledBeforeSpawn ==
    /\ nodeProcess = Len(procs)
    /\ \A c \in DOMAIN procs : procs[c] = "running" <=> c = nodeProcess

C16_RespondedTerminal ==
    \A r \in InFlight :
       \A p \in DOMAIN reqs[r].log :
          reqs[r].log[p].ev = "late" => reqs[r].log[p].idx \notin {404, 500}

\* ---- C17
\* after position p of the log no middleware or handler is invoked, no
\* route is looked up and no handler-format 500 is written
ChainStopped(L, p) ==
    \A q \in DOMAIN L : q > p => L[q].ev \notin {"mw", "lookup", "h", "catch"}

\* C17 as stated: once a middleware has thrown the chain has stopped and
\* the response is the 500 Server error, as it is for a malformed url
C17_MiddlewareThrow ==
    \A r \in InFlight :
       LET L == reqs[r].log
       IN  /\ \A p \in DOMAIN L :
                 L[p].ev = "mwthrow" => ChainStopped(L, p) /\ reqs[r].res = ServerError
           /\ ~ParseUrl(reqs[r].url).ok => ChainStopped(L, 0) /\ reqs[r].res = ServerError

\* C17 amended: once a middleware has thrown while no response was finalized
\* yet, the chain has stopped and the response is the 500 Server error, as
\* it is for a malformed url
C17_MiddlewareThrowUnsent ==
    \A r \in InFlight :
       LET L == reqs[r].log
       IN  /\ \A p \in DOMAIN L :
                 (L[p].ev = "mwthrow" /\ NoSendBefore(L, p)) =>
                     ChainStopped(L, p) /\ reqs[r].res = ServerError
           /\ ~ParseUrl(reqs[r].url).ok => ChainStopped(L, 0) /\ reqs[r].res = ServerError

\* the second middleware threw before any response and the request ended
\* with the 500 Server error
C17_Witness ==
    \E r \in InFlight :
       LET L == reqs[r].log
       IN  /\ reqs[r].pc = "done"
           /\ reqs[r].res = ServerError
           /\ \E p \in DOMAIN L :
                 L[p] = Ev("mwthrow", 2, 0) /\ NoSendBefore(L, p)

\* ---- C18
RECURSIVE Alone(_, _, _)
\* the dispatch of a request that is the only one: m after the events of L
\* from position p on that its client (data, end) and its user functions
\* (next, res.json, throw, return) brought about
Alone(m, L, p) ==
    IF p > Len(L) THEN m
    ELSE LET e == L[p]
             spent == [m EXCEPT !.rq.ops = @ + 1]
         IN  Alone(IF e.ev = "data"
                   THEN IF e.idx <= Len(m.rq.pending)
                        THEN [m EXCEPT !.rq = OnData(m.rq, e.idx)] ELSE m
                   ELSE IF e.ev = "end" THEN OnEnd(m.rq)
                   ELSE IF m.stack = <<>> THEN m  \* no function of it is running
                   ELSE IF e.ev \in {"mwnext", "hnext"} THEN DoNext(spent)
                   ELSE IF e.ev = "json" THEN DoJson(spent)
                   ELSE IF e.ev \in {"mwthrow", "hthrow"} THEN DoThrow(spent)
                   ELSE IF e.ev = "ret" THEN DoReturn(m)
                   ELSE m,
                   L, p + 1)

AloneOf(r) == Alone(Arrive(reqs[r].method, reqs[r].url, reqs[r].payload), reqs[r].log, 1)

\* C18: whatever the other requests did in between, the state of a request
\* (the middlewares and handlers invoked, the route matched, req.params,
\* req.body, both cursors, the response) is the state of that request
\* processed alone with the same chunks and the same calls of its functions
C18_Independent ==
    \A r \in InFlight :
       /\ reqs[r] = Settle(AloneOf(r))
       /\ AloneOf(r).stack = IF running = r THEN stack ELSE <<>>

\* the first request is still reading its body, one chunk delivered and one
\* to come, while a POST for another path that arrived later had both of its
\* chunks and went through the middleware to the handler of the route
C18_Witness ==
    /\ Len(reqs) = 2
    /\ reqs[1].pc = "reading" /\ reqs[1].body # <<>> /\ reqs[1].pending # <<>>
    /\ reqs[2].pc = "done" /\ reqs[2].method = "POST" /\ reqs[2].url # reqs[1].url
    /\ Cardinality({q \in DOMAIN reqs[2].log : reqs[2].log[q].ev = "data"}) = 2
    /\ Logged(reqs[2].log, "mw") /\ Logged(reqs[2].log, "h")
    /\ reqs[1].i = 0 /\ reqs[2].i = 2

\* ---- C19
\* C19: the middlewares invoked for a request have increasing positions in
\* the list (so none is invoked twice, whatever the calls of next), and none
\* is invoked once route lookup has started
C19_MiddlewareOnce ==
    \A r \in InFlight :
       LET L == reqs[r].log
       IN  \A q \in DOMAIN L :
              L[q].ev = "mw" =>
                  \A p \in 1..(q - 1) :
                     /\ L[p].ev = "mw" => L[p].idx < L[q].idx
                     /\ L[p].ev # "lookup"

\* the first of two middlewares called next three times: the second was
\* invoked, and route lookup started twice
C19_Witness ==
    \E r \in InFlight :
       LET L == reqs[r].log
       IN  /\ Len(middlewares) = 2
           /\ Cardinality({p \in DOMAIN L : L[p] = Ev("mwnext", 1, 0)}) = 3
           /\ Cardinality({p \in DOMAIN L : L[p].ev = "mw"}) = 2
           /\ Cardinality({p \in DOMAIN L : L[p].ev = "lookup"}) = 2

\* ---- C20
\* C20: for a request route lookup runs once at most, one handler chain at
\* most is started, and no handler of the matched route is invoked twice
C20_LookupOnce ==
    \A r \in InFlight :
       LET L == reqs[r].log
       IN  /\ Cardinality({p \in DOMAIN L : L[p].ev = "lookup"}) <= 1
           /\ Len(reqs[r].chains) <= 1
           /\ \A p, q \in DOMAIN L :
                 (p < q /\ L[p].ev = "h" /\ L[q].ev = "h") => L[p].idx # L[q].idx

====
